---- MODULE Spec2Model ----
(***************************************************************************)
(* A model of secret-service-rs: the client side of the freedesktop Secret *)
(* Service protocol (sessions, the secret codec, the consent prompt and    *)
(* the lock/unlock coordination), together with the daemon, the user who   *)
(* answers prompts, and the message bus, which are its environment.        *)
(*                                                                         *)
(* The client is one thread making blocking calls. A call is split where   *)
(* the code blocks on the bus: one action per method round trip and one    *)
(* per turn of exec_prompt's event loop.                                   *)
(***************************************************************************)
EXTENDS Integers, Sequences, FiniteSets, TLC

VARIABLES
    locked,     \* daemon: object path -> its Locked property
    exists,     \* daemon: the objects it exports
    prompts,    \* daemon: prompt number -> the prompt object
    stored,     \* daemon: the secret of the item, as the daemon keeps it
    inbox,      \* connection: signals received and not yet read by the client
    connected,  \* connection: FALSE once the bus connection is gone
    matchRules, \* connection: the prompt paths whose signals it subscribed to
    foreign,    \* bus: how many signals of other senders were delivered
    session,    \* client: the Session (object path and AES key, if any)
    written,    \* client: the secret of its last successful store, and the key
                \* of the session it was stored through
    keypairs,   \* key exchange: the Keypair of the client and the daemon's
    ivs,        \* client: the IVs of the records it built before this call
    wire,       \* bus: the last secret struct that went over it
    attributes, \* daemon: the Attributes property of the item, a dictionary
    given,      \* client: the attributes of its last successful create or set
    pc,         \* client: where the running call stands
    call,       \* client: the running call and what it has seen
    ret         \* client: what the call returned

vars == <<locked, exists, prompts, stored, inbox, connected, matchRules, foreign,
          session, written, keypairs, ivs, wire, attributes, given, pc, call, ret>>

\* The variables of the lock/prompt protocol and those of the secret codec.
protocolVars == <<locked, exists, prompts, inbox, connected, matchRules, foreign>>
codecVars == <<stored, session, written, wire, keypairs, ivs, attributes, given>>

----------------------------------------------------------------------------
(* Bounds of the model. *)

\* Signals of other senders that may reach the connection in one behaviour.
MaxForeign == 1
\* Objects (items of the collection) the daemon exports.
MaxItems == 2
\* Prompt objects the daemon may create in one behaviour.
MaxPrompts == 1
\* The longest secret stored: one byte more than a cipher block.
MaxSecretLen == 17
\* The largest private key of a key exchange.
MaxExponent == 11
\* The largest base powm is run on by itself.
MaxBase == 8

----------------------------------------------------------------------------
(* Object paths. *)

\* The root path "/": "no prompt" in a prompt slot (item.rs:179).
RootPath == <<"/">>
ItemPath(n) == <<"/", "collection", n>>
PromptPath(n) == <<"/", "prompt", n>>
SessionPath == <<"/", "session">>
\* The path of a sender that is no prompt of the daemon.
ForeignPath == <<"/", "foreign">>
\* No path at all: the value of a slot that was never filled.
NoPath == <<>>

PromptIds == 1..MaxPrompts
ItemPaths == {ItemPath(n) : n \in 1..MaxItems}
\* The lockable objects. Collection and Item carry the same code for
\* is_locked, ensure_unlocked and lock_or_unlock (collection.rs:85-130,
\* item.rs:79-124); the model runs it on the items.
Objects == ItemPaths
PromptPaths == {PromptPath(n) : n \in PromptIds}

\* The prompt number of a prompt path, 0 for any other path.
PromptIdOf(path) ==
    IF path \in PromptPaths THEN path[3] ELSE 0

----------------------------------------------------------------------------
(* dbus::MessageItem values: a tag and a value. *)

MArray(s) == [t |-> "Array", v |-> s]
MObjectPath(p) == [t |-> "ObjectPath", v |-> p]
MBool(b) == [t |-> "Bool", v |-> b]
MStr(s) == [t |-> "Str", v |-> s]
MByte(b) == [t |-> "Byte", v |-> b]
MVariant(x) == [t |-> "Variant", v |-> x]
MStruct(s) == [t |-> "Struct", v |-> s]
\* No item.
MNone == [t |-> "None", v |-> <<>>]

\* Vec::get(i) with Rust's 0-based index: whether it is Some.
HasItem(items, i) == Len(items) > i
\* Vec::get(i): the item (only where HasItem).
GetItem(items, i) == items[i + 1]

\* The paths of a set of items in a fixed order.
RECURSIVE SeqOfItems(_, _)
SeqOfItems(S, n) ==
    IF n > MaxItems THEN <<>>
    ELSE (IF ItemPath(n) \in S THEN <<ItemPath(n)>> ELSE <<>>) \o SeqOfItems(S, n + 1)

SeqOfObjects(S) == SeqOfItems(S, 1)

\* array<object_path> of a set of objects.
PathItems(S) ==
    MArray([i \in 1..Len(SeqOfObjects(S)) |-> MObjectPath(SeqOfObjects(S)[i])])

\* The object paths of an array<object_path>.
PathsOf(item) == {item.v[i].v : i \in 1..Len(item.v)}

----------------------------------------------------------------------------
(* Signals. A signal names its sender's object path and its member, and   *)
(* carries its arguments as MessageItems (Message::get_items).            *)

Signal(path, member, items) == [path |-> path, member |-> member, items |-> items]
NoSignal == Signal(NoPath, "none", <<>>)

CompletedMember == "org.freedesktop.Secret.Prompt.Completed"

\* Prompt.Completed(dismissed: bool, result: variant) of a prompt object.
CompletedSignal(n, dismissed, result) ==
    Signal(PromptPath(n), CompletedMember, <<MBool(dismissed), MVariant(result)>>)

\* Signals another sender on the bus may address to the connection: the bus's
\* own NameAcquired(name), and signals with one or two arguments.
ForeignSignals ==
    { Signal(ForeignPath, "org.freedesktop.DBus.NameAcquired", <<MStr(":1.7")>>),
      Signal(ForeignPath, "Other.Flag", <<MBool(TRUE)>>),
      Signal(ForeignPath, "Other.Pair", <<MBool(FALSE), MVariant(MObjectPath(ForeignPath))>>) }

----------------------------------------------------------------------------
(* The secret codec: AES-128-CBC with PKCS#7 padding.                      *)

\* The AES block, and the length of the IV format_secret draws.
BlockSize == 16

\* Result<_, Error>: Ok(value) or an error kind.
Ok(value) == [result |-> "Ok", value |-> value]
Err(kind) == [result |-> kind, value |-> <<>>]

\* Bitwise exclusive or of two bytes.
RECURSIVE Xor(_, _)
Xor(a, b) ==
    IF a = 0 THEN b
    ELSE IF b = 0 THEN a
    ELSE ((a + b) % 2) + 2 * Xor(a \div 2, b \div 2)

XorBlock(x, y) == [i \in 1..BlockSize |-> Xor(x[i], y[i])]

\* The block cipher under a key, as a keyed permutation of the blocks: the
\* bytes rotate by one place and the key is added byte by byte. What the codec
\* relies on is kept: decryption under the same key inverts encryption, and
\* under another key it does not.
AesEncryptBlock(key, block) ==
    [i \in 1..BlockSize |-> (block[(i % BlockSize) + 1] + key[i]) % 256]

AesDecryptBlock(key, block) ==
    [j \in 1..BlockSize |->
        LET i == ((j + BlockSize - 2) % BlockSize) + 1
        IN  (block[i] + 256 - key[i]) % 256]

\* Cipher block chaining over whole blocks; prev is the IV at the start.
RECURSIVE CbcEncrypt(_, _, _)
CbcEncrypt(key, prev, data) ==
    IF Len(data) = 0 THEN <<>>
    ELSE LET c == AesEncryptBlock(key, XorBlock(SubSeq(data, 1, BlockSize), prev))
         IN  c \o CbcEncrypt(key, c, SubSeq(data, BlockSize + 1, Len(data)))

RECURSIVE CbcDecrypt(_, _, _)
CbcDecrypt(key, prev, data) ==
    IF Len(data) = 0 THEN <<>>
    ELSE LET c == SubSeq(data, 1, BlockSize)
         IN  XorBlock(AesDecryptBlock(key, c), prev)
                \o CbcDecrypt(key, c, SubSeq(data, BlockSize + 1, Len(data)))

\* PKCS#7: n bytes of value n, 1 <= n <= BlockSize, up to the next block end.
\* A padding that adds nothing to data that fills its blocks.
Pkcs7Pad_to_fill(data) ==
    LET n == (BlockSize - (Len(data) % BlockSize)) % BlockSize
    IN  data \o [i \in 1..n |-> n]
Pkcs7Pad(data) ==
    LET n == BlockSize - (Len(data) % BlockSize)
    IN  data \o [i \in 1..n |-> n]

\* The padding taken off, or an error where the data does not end in one.
Pkcs7Unpad(data) ==
    IF Len(data) = 0 THEN Err("Crypto")
    ELSE LET n == data[Len(data)]
         IN  IF /\ n >= 1
                /\ n <= BlockSize
                /\ n <= Len(data)
                /\ \A i \in (Len(data) - n + 1)..Len(data) : data[i] = n
             THEN Ok(SubSeq(data, 1, Len(data) - n))
             ELSE Err("Crypto")

\* ss_crypto::encrypt: cbc_encryptor(KeySize128, key, iv, PkcsPadding).
encrypt(data, key, iv) ==
    CbcEncrypt(key, iv, Pkcs7Pad(data))

\* A decrypt that hands back the padded plaintext as it is.
decrypt_keeping_padding(encrypted_data, key, iv) ==
    Ok(CbcDecrypt(key, iv, encrypted_data))
\* session::decrypt: GenericArray::from_slice(iv) panics on an IV that is not
\* one block long; decrypt_padded_vec_mut fails on a length that is not a
\* multiple of the block and on a wrong padding.
decrypt(encrypted_data, key, iv) ==
    IF Len(iv) # BlockSize THEN Err("panic")
    ELSE IF Len(encrypted_data) % BlockSize # 0 THEN Err("Crypto")
    ELSE Pkcs7Unpad(CbcDecrypt(key, iv, encrypted_data))

\* MessageItem::from(&[u8]): an array of Byte items.
FromBytes(bytes) == MArray([i \in 1..Len(bytes) |-> MByte(bytes[i])])
\* The bytes of an array of Byte items.
ToBytes(item) == [i \in 1..Len(item.v) |-> item.v[i].v]

\* The secrets stored: every length up to MaxSecretLen, of one repeated byte
\* (the values PKCS#7 pads with among them) or of changing bytes.
FillBytes == {1, 16}
Fill(n, b) == [i \in 1..n |-> b]
Ramp(n) == [i \in 1..n |-> (37 * i) % 256]
Secrets ==
    {Fill(n, b) : n \in 0..MaxSecretLen, b \in FillBytes}
        \cup {Ramp(n) : n \in 0..MaxSecretLen}

\* AES keys a key exchange may end in, and IVs a random generator may draw.
KeyOf(seed) == [i \in 1..BlockSize |-> (seed + 11 * i) % 256]
AesKeys == {KeyOf(3), KeyOf(200)}
IVs == {KeyOf(0), KeyOf(77)}

\* Session { object_path, aes_key: Option<AesKey> }; NoKey is None.
NoKey == <<>>
Session(aes_key) == [object_path |-> SessionPath, aes_key |-> aes_key]
PlainSession == Session(NoKey)
Sessions == {PlainSession} \cup {Session(k) : k \in AesKeys}

\* Session::get_aes_key.
get_aes_key(s) == s.aes_key

\* The session there is before one was opened.
NoSession == [object_path |-> NoPath, aes_key |-> NoKey]

\* The key exchange. The group of the model: the generator of the code and a
\* prime of two bytes in the place of the 1024-bit DH_PRIME.
DH_GENERATOR == 2
DH_PRIME == 1019

\* The private keys Keypair::generate may draw: every value of
\* private_key_bytes up to the bound, 0 among them.
Exponents == 0..MaxExponent

\* A powm that adds where the code multiplies.
RECURSIVE powm_adding(_, _, _)
powm_adding(base, exp, modulus) ==
    IF exp = 0 THEN 1
    ELSE LET rest == powm_adding((base * base) % modulus, exp \div 2, modulus)
         IN  IF exp % 2 = 1 THEN (rest + base) % modulus ELSE rest
\* session::powm, square and multiply from the lowest bit of exp up: the
\* result takes the factor base for every odd exp, base is squared and exp
\* halved.
RECURSIVE powm(_, _, _)
powm(base, exp, modulus) ==
    IF exp = 0 THEN 1
    ELSE LET rest == powm((base * base) % modulus, exp \div 2, modulus)
         IN  IF exp % 2 = 1 THEN (rest * base) % modulus ELSE rest

\* The turns of powm's loop `while !exp.is_zero()`: every turn shifts exp
\* right by one bit.
RECURSIVE powm_turns(_)
powm_turns(exp) ==
    IF exp = 0 THEN 0 ELSE 1 + powm_turns(exp \div 2)

\* BigUint::to_bytes_be: the digits to the base 256, the highest first; one
\* zero byte for 0.
RECURSIVE to_bytes_be(_)
to_bytes_be(n) ==
    IF n < 256 THEN <<n>> ELSE Append(to_bytes_be(n \div 256), n % 256)

\* BigUint::from_bytes_be.
RECURSIVE from_bytes_be(_)
from_bytes_be(bytes) ==
    IF Len(bytes) = 0 THEN 0
    ELSE 256 * from_bytes_be(SubSeq(bytes, 1, Len(bytes) - 1)) + bytes[Len(bytes)]

\* Keypair, and the one of a given private key (Keypair::generate after
\* rng.fill).
NoKeypair == [private |-> 0, public |-> 0]
NoKeypairs == [client |-> NoKeypair, server |-> NoKeypair]
Keypair(private_key) ==
    [private |-> private_key,
     public |-> powm(DH_GENERATOR, private_key, DH_PRIME)]

\* hkdf: 16 bytes of output keying material, a function of the input keying
\* material (of its two lowest bytes, which hold every value below DH_PRIME).
hkdf(ikm) == KeyOf(ikm[Len(ikm)] + 3 * ikm[Len(ikm) - 1])

\* A common secret padded with one zero byte less.
common_secret_padded_short(keypair, server_public_key) ==
    LET common_secret_bytes ==
            to_bytes_be(powm(server_public_key, keypair.private, DH_PRIME))
    IN  [i \in 1..(127 - Len(common_secret_bytes)) |-> 0] \o common_secret_bytes
\* derive_shared's input keying material: the bytes of the common secret
\* behind 128 - len zero bytes.
common_secret_padded(keypair, server_public_key) ==
    LET common_secret == powm(server_public_key, keypair.private, DH_PRIME)
        common_secret_bytes == to_bytes_be(common_secret)
    IN  [i \in 1..(128 - Len(common_secret_bytes)) |-> 0] \o common_secret_bytes

\* Keypair::derive_shared: the common secret, padded in front to 128 bytes,
\* through hkdf.
derive_shared(keypair, server_public_key) ==
    hkdf(common_secret_padded(keypair, server_public_key))

\* The OpenSession reply (output, result) of the daemon.
OpenSessionResult(output, result) == [output |-> output, result |-> result]

\* An encrypted_session that reads an output of any type as a public key.
encrypted_session_of_any_output(keypair, opened) ==
    LET server_public_key == IF opened.output.t = "Array"
                             THEN from_bytes_be(ToBytes(opened.output)) ELSE 0
        aes_key == derive_shared(keypair, server_public_key)
    IN  Ok([object_path |-> opened.result, aes_key |-> aes_key])
\* A session that keeps the padded common secret in the place of the key.
encrypted_session_keeping_secret(keypair, opened) ==
    IF opened.output.t # "Array" THEN Err("Zvariant")
    ELSE LET server_public_key == from_bytes_be(ToBytes(opened.output))
         IN  Ok([object_path |-> opened.result,
                 aes_key |-> common_secret_padded(keypair, server_public_key)])
\* A session that is given no key although one was exchanged.
encrypted_session_without_key(keypair, opened) ==
    IF opened.output.t # "Array" THEN Err("Zvariant")
    ELSE Ok([object_path |-> opened.result, aes_key |-> NoKey])
\* Session::encrypted_session: the daemon's public key out of the reply's
\* output (which must be a byte array), and the key derived from it.
encrypted_session(keypair, opened) ==
    IF opened.output.t # "Array" THEN Err("Zvariant")
    ELSE LET server_public_key == from_bytes_be(ToBytes(opened.output))
             aes_key == derive_shared(keypair, server_public_key)
         IN  Ok([object_path |-> opened.result, aes_key |-> aes_key])

\* Option<Vec<u8>>: a secret, or none.
NoSecret == [some |-> FALSE, bytes |-> <<>>]
SomeSecret(bytes) == [some |-> TRUE, bytes |-> bytes]

\* A format_secret that leaves the IV as it was initialised, [0; 16].
format_secret_with_zero_iv(sess, secret, content_type, aes_iv) ==
    IF get_aes_key(sess) # NoKey
    THEN MStruct(<<MObjectPath(sess.object_path),
                   FromBytes([i \in 1..16 |-> 0]),
                   FromBytes(encrypt(secret, get_aes_key(sess), [i \in 1..16 |-> 0])),
                   MStr(content_type)>>)
    ELSE MStruct(<<MObjectPath(sess.object_path),
                   MArray(<<>>),
                   FromBytes(secret),
                   MStr(content_type)>>)
\* A format_secret that sends the IV it drew in a plain session too.
format_secret_with_iv_always(sess, secret, content_type, aes_iv) ==
    IF get_aes_key(sess) # NoKey
    THEN MStruct(<<MObjectPath(sess.object_path),
                   FromBytes(aes_iv),
                   FromBytes(encrypt(secret, get_aes_key(sess), aes_iv)),
                   MStr(content_type)>>)
    ELSE MStruct(<<MObjectPath(sess.object_path),
                   FromBytes(aes_iv),
                   FromBytes(secret),
                   MStr(content_type)>>)
\* util::format_secret. aes_iv is what rng.fill drew; session.is_encrypted()
\* is whether the session holds a key.
format_secret(sess, secret, content_type, aes_iv) ==
    IF get_aes_key(sess) # NoKey
    THEN LET encrypted_secret == encrypt(secret, get_aes_key(sess), aes_iv)
         IN  MStruct(<<MObjectPath(sess.object_path),
                       FromBytes(aes_iv),
                       FromBytes(encrypted_secret),
                       MStr(content_type)>>)
    ELSE MStruct(<<MObjectPath(sess.object_path),
                   MArray(<<>>),
                   FromBytes(secret),
                   MStr(content_type)>>)

\* proxy::SecretStruct, deserialised from the struct on the wire.
SecretStruct(item) ==
    [session |-> item.v[1].v,
     parameters |-> ToBytes(item.v[2]),
     value |-> ToBytes(item.v[3]),
     content_type |-> item.v[4].v]

\* The daemon takes a secret struct in (CreateItem, SetSecret): the secret in
\* the clear, under the key of the session the struct names.
DaemonDecode(item, sess) ==
    LET s == SecretStruct(item)
    IN  IF get_aes_key(sess) # NoKey
        THEN decrypt(s.value, get_aes_key(sess), s.parameters)
        ELSE Ok(s.value)

\* A daemon that hands a secret out under the key it was stored through.
DaemonEncode_under_storing_key(secret, sess, iv) ==
    IF written.key # NoKey
    THEN MStruct(<<MObjectPath(sess.object_path), FromBytes(iv),
                   FromBytes(encrypt(secret, written.key, iv)),
                   MStr("text/plain")>>)
    ELSE MStruct(<<MObjectPath(sess.object_path), MArray(<<>>),
                   FromBytes(secret), MStr("text/plain")>>)
\* The daemon hands a secret out (GetSecret(session)): under the session's key
\* and an IV of its own choice.
DaemonEncode(secret, sess, iv) ==
    IF get_aes_key(sess) # NoKey
    THEN MStruct(<<MObjectPath(sess.object_path), FromBytes(iv),
                   FromBytes(encrypt(secret, get_aes_key(sess), iv)),
                   MStr("text/plain")>>)
    ELSE MStruct(<<MObjectPath(sess.object_path), MArray(<<>>),
                   FromBytes(secret), MStr("text/plain")>>)

\* Item::get_secret (blocking) on the struct the proxy returned.
DecodeSecret(sess, secret_struct) ==
    LET secret == secret_struct.value
    IN  IF get_aes_key(sess) # NoKey
        THEN LET aes_iv == secret_struct.parameters
             IN  decrypt(secret, get_aes_key(sess), aes_iv)
        ELSE Ok(secret)

----------------------------------------------------------------------------
(* The daemon (org.freedesktop.secrets), seen through the proxies.         *)

NoPrompt == [state |-> "free", act |-> "none", objs |-> {}]
\* A prompt that has completed: the daemon has removed the object.
GonePrompt == [state |-> "gone", act |-> "none", objs |-> {}]

\* The lowest prompt number not yet used, 0 when the bound is reached.
FreshPrompt ==
    IF \E n \in PromptIds : prompts[n].state = "free"
    THEN CHOOSE n \in PromptIds :
            /\ prompts[n].state = "free"
            /\ \A m \in PromptIds : prompts[m].state = "free" => n <= m
    ELSE 0

\* The Locked value an action asks for.
TargetLocked(act) == (act = "Lock")

\* Service.Lock / Service.Unlock on objs: the objects the daemon may change
\* without a prompt. Objects already in the asked state need none; any of the
\* others may need one, and then a prompt object is created for them.
DirectChoices(objs, act) ==
    LET already == {o \in objs : locked[o] = TargetLocked(act)}
        others == objs \ already
    IN  { already \cup S : S \in {T \in SUBSET others : T = others \/ FreshPrompt # 0} }

\* The (affected, prompt) reply of Lock/Unlock (proxy LockResult/UnlockResult).
LockReply(direct, promptPath) ==
    <<PathItems(direct), MObjectPath(promptPath)>>

\* The shapes a reply may arrive in: as declared, or with an element of
\* another type in the first or the second place.
ReplyShapes == {"declared", "first_mistyped", "second_mistyped"}

Shaped(reply, shape) ==
    CASE shape = "declared" -> reply
      [] shape = "first_mistyped" -> <<MStr("?")>> \o Tail(reply)
      [] shape = "second_mistyped" -> <<reply[1], MStr("?")>>

\* The daemon's prompts after Lock/Unlock left `rest` to a prompt.
PromptsAfterGated(act, rest) ==
    IF rest = {} THEN prompts
    ELSE [prompts EXCEPT ![FreshPrompt] =
            [state |-> "created", act |-> act, objs |-> rest]]

PromptPathFor(rest) == IF rest = {} THEN RootPath ELSE PromptPath(FreshPrompt)

LockedAfter(act, objs) ==
    [o \in Objects |-> IF o \in objs THEN TargetLocked(act) ELSE locked[o]]

\* The daemon performs a gated action on objs: the Locked properties and the
\* exported objects afterwards. A created object is unlocked, a deleted one
\* is gone.
LockedApplied(act, objs) ==
    CASE act \in {"Lock", "Unlock"} -> LockedAfter(act, objs)
      [] act \in {"Create", "Delete"} ->
            [o \in Objects |-> IF o \in objs THEN FALSE ELSE locked[o]]
      [] OTHER -> locked

ExistsApplied(act, objs) ==
    CASE act = "Create" -> exists \cup objs
      [] act = "Delete" -> exists \ objs
      [] OTHER -> exists

\* The lowest object path the daemon does not export yet (only where there
\* is one).
FreshObject ==
    CHOOSE o \in Objects \ exists :
        \A q \in Objects \ exists : o[3] <= q[3]

\* The result variant of a prompt's Completed signal: the objects locked or
\* unlocked, the path of the object created, and nothing for a deletion or a
\* dismissal.
PromptResult(p, dismissed) ==
    IF dismissed \/ p.act = "Delete" THEN MStr("")
    ELSE IF p.act = "Create" THEN MObjectPath(CHOOSE o \in p.objs : TRUE)
    ELSE PathItems(p.objs)

\* Whether the daemon exports a prompt object at the path that can be shown.
Showable(path) ==
    PromptIdOf(path) # 0 /\ prompts[PromptIdOf(path)].state = "created"

----------------------------------------------------------------------------
(* The client, dbus API: util.rs, collection.rs, item.rs.                  *)

\* Interface::method blocks for the reply for at most 2000 ms. The reply
\* arrives ("reply"); or the call fails: the request was not handled ("error"),
\* or it was handled and the reply came late or not at all ("timeout").
MethodOutcomes == {"reply", "error", "timeout"}

\* The outcomes of a call on an object the daemon exports, over a live
\* connection: the request is handled.
HandledOutcomes == MethodOutcomes \ {"error"}

\* A call: the operation, the objects and action it is about, the requests it
\* sent, the reply it read, the prompt path it passed to the prompt protocol,
\* the objects that were locked and those that existed when it began, the
\* user's answer to its prompt, the payload exec_prompt handed back, the
\* number of Prompt requests it sent, the IV format_secret drew, and the
\* objects that were locked when it sent its Delete request.
NoCall ==
    [op |-> "none", objs |-> {}, act |-> "none", sent |-> <<>>, res |-> <<>>,
     prompt |-> NoPath, before |-> {}, existed |-> {}, answer |-> "none",
     payload |-> MNone, prompted |-> 0, aes_iv |-> <<>>, locked_at_send |-> {}]

NoRet == [result |-> "none", value |-> <<>>, sig |-> NoSignal]

\* A call ends: its result, the value it returns and the signal its prompt
\* wait resolved on.
Return(result, value, sig) ==
    /\ ret' = [result |-> result, value |-> value, sig |-> sig]
    /\ pc' = "done"

\* Collection::is_locked / Item::is_locked: the Locked property.
is_locked(o) == locked[o]

\* An ensure_unlocked that lets a locked object through.
ensure_unlocked_always_ok(o) == IF is_locked(o) THEN "Ok" ELSE "Ok"
\* Collection::ensure_unlocked / Item::ensure_unlocked.
ensure_unlocked(o) == IF is_locked(o) THEN "Locked" ELSE "Ok"

\* A lock_or_unlock that runs the prompt whenever the reply's second element
\* is an object path.
NeedsPromptOnAnyPath(res) ==
    /\ HasItem(res, 1)
    /\ GetItem(res, 1).t = "ObjectPath"
\* lock_or_unlock's reading of the reply: a prompt is run when the first
\* element is an empty array and the second is an object path.
NeedsPrompt(res) ==
    /\ HasItem(res, 0)
    /\ GetItem(res, 0).t = "Array"
    /\ Len(GetItem(res, 0).v) = 0
    /\ HasItem(res, 1)
    /\ GetItem(res, 1).t = "ObjectPath"

\* The objects of objs that are locked now.
LockedAmong(objs) == {o \in objs : locked[o]}

NewCall(op, objs, act) ==
    [NoCall EXCEPT !.op = op, !.objs = objs, !.act = act,
                   !.sent = <<SeqOfObjects(objs)>>,
                   !.before = LockedAmong(objs),
                   !.existed = exists]

\* Collection::lock_or_unlock / Item::lock_or_unlock up to the return or the
\* entry into exec_prompt.
lock_or_unlock(o, act) ==
    /\ pc = "idle"
    /\ \E outcome \in {"reply", "error"} :
       IF ~connected \/ outcome = "error"
       THEN /\ call' = NewCall("lock_or_unlock", {o}, act)
            /\ Return("Dbus", <<>>, NoSignal)
            /\ UNCHANGED <<locked, prompts>>
       ELSE \E direct \in DirectChoices({o}, act), shape \in ReplyShapes :
            LET rest == {o} \ direct
                res == Shaped(LockReply(direct, PromptPathFor(rest)), shape)
                c == [NewCall("lock_or_unlock", {o}, act) EXCEPT !.res = res]
            IN  /\ locked' = LockedAfter(act, direct)
                /\ prompts' = PromptsAfterGated(act, rest)
                /\ IF NeedsPrompt(res)
                   THEN /\ call' = [c EXCEPT !.prompt = GetItem(res, 1).v]
                        /\ pc' = "exec_prompt"
                        /\ ret' = NoRet
                   ELSE /\ call' = c
                        /\ Return("Ok", <<>>, NoSignal)
    /\ UNCHANGED <<inbox, connected, matchRules, foreign>>
    /\ UNCHANGED <<exists, codecVars>>

\* exec_prompt, first part: the Prompt("") call on the prompt path. It fails
\* on a lost connection and on a path with no prompt object to show.
exec_prompt_call ==
    /\ pc = "exec_prompt"
    /\ \E outcome \in (IF connected /\ Showable(call.prompt)
                       THEN HandledOutcomes ELSE {"error"}) :
        /\ prompts' = IF outcome = "error" THEN prompts
                      ELSE [prompts EXCEPT ![PromptIdOf(call.prompt)].state = "shown"]
        /\ IF outcome = "reply"
           THEN pc' = "await" /\ UNCHANGED ret
           ELSE Return("Dbus", <<>>, NoSignal)
    /\ call' = [call EXCEPT !.prompted = @ + 1]
    /\ UNCHANGED <<locked, inbox, connected, matchRules, foreign>>
    /\ UNCHANGED <<exists, codecVars>>

\* What the caller of exec_prompt makes of the payload it got: lock_or_unlock
\* and delete drop it; create_collection unwraps the variant and the object
\* path in it, and panics on anything else.
AfterPrompt(op, payload) ==
    IF op = "create_collection"
    THEN IF payload.t = "Variant" /\ payload.v.t = "ObjectPath"
         THEN Ok(payload.v.v)
         ELSE Err("panic")
    ELSE Ok(<<>>)

\* exec_prompt's reading of one signal: "dismissed", "result" or "skip".
SignalVerdict(items) ==
    IF HasItem(items, 0) /\ GetItem(items, 0).t = "Bool" /\ GetItem(items, 0).v
    THEN "dismissed"
    ELSE IF HasItem(items, 1) THEN "result" ELSE "skip"

\* exec_prompt, one turn of `for event in bus.iter(5000)`: the next signal of
\* the connection; or, with none pending, the end of the iteration, which is
\* the loss of the connection (a turn that times out yields Nothing and the
\* loop goes on: the wait has no bound). The caller goes on with the payload.
exec_prompt_next ==
    /\ pc = "await"
    /\ IF inbox # <<>>
       THEN LET sig == Head(inbox)
                verdict == SignalVerdict(sig.items)
            IN  /\ inbox' = Tail(inbox)
                /\ CASE verdict = "dismissed" ->
                            /\ Return("Prompt", <<>>, sig)
                            /\ UNCHANGED call
                     [] verdict = "result" ->
                            LET after == AfterPrompt(call.op, GetItem(sig.items, 1))
                            IN  /\ call' = [call EXCEPT !.payload = GetItem(sig.items, 1)]
                                /\ Return(after.result, after.value, sig)
                     [] OTHER -> UNCHANGED <<pc, ret, call>>
                /\ UNCHANGED connected
       ELSE /\ connected' = FALSE
            /\ Return("Prompt", <<>>, NoSignal)
            /\ UNCHANGED <<inbox, call>>
    /\ UNCHANGED <<locked, prompts, matchRules, foreign>>
    /\ UNCHANGED <<exists, codecVars>>

\* The shapes a Delete reply may arrive in: the prompt path, or an element
\* of another type.
DeleteShapes == {"declared", "mistyped"}

\* The Delete request of delete and what delete makes of the reply. The
\* daemon deletes an unlocked object at once or creates a prompt for the
\* deletion; a locked object it deletes only through a prompt.
DeleteRequest(o, c) ==
    LET asked == [c EXCEPT !.sent = <<"Delete">>, !.locked_at_send = LockedAmong({o})]
        choices == {b \in BOOLEAN : (b => ~locked[o]) /\ (~b => FreshPrompt # 0)}
    IN  \E outcome \in {"reply", "error"} :
            IF outcome = "error" \/ choices = {}
            THEN /\ call' = asked
                 /\ Return("Dbus", <<>>, NoSignal)
                 /\ UNCHANGED <<locked, exists, prompts>>
            ELSE \E direct \in choices, shape \in DeleteShapes :
                 LET rest == IF direct THEN {} ELSE {o}
                     prompt == IF shape = "declared"
                               THEN <<MObjectPath(PromptPathFor(rest))>>
                               ELSE <<MStr("?")>>
                 IN  /\ exists' = IF direct THEN ExistsApplied("Delete", {o}) ELSE exists
                     /\ locked' = IF direct THEN LockedApplied("Delete", {o}) ELSE locked
                     /\ prompts' = PromptsAfterGated("Delete", rest)
                     /\ IF GetItem(prompt, 0).t = "ObjectPath"
                        THEN IF GetItem(prompt, 0).v # RootPath
                             THEN /\ call' = [asked EXCEPT !.res = prompt,
                                                  !.prompt = GetItem(prompt, 0).v]
                                  /\ pc' = "exec_prompt"
                                  /\ ret' = NoRet
                             ELSE /\ call' = [asked EXCEPT !.res = prompt]
                                  /\ Return("Ok", <<>>, NoSignal)
                        ELSE /\ call' = [asked EXCEPT !.res = prompt]
                             /\ Return("Parse", <<>>, NoSignal)

\* Collection::delete / Item::delete up to the return or the entry into
\* exec_prompt: ensure_unlocked, then one Delete request. The daemon deletes
\* the object at once, or creates a prompt for the deletion.
delete(o) ==
    /\ pc = "idle"
    /\ LET c == [NewCall("delete", {o}, "Delete") EXCEPT !.sent = <<>>]
       IN  IF ~connected \/ o \notin exists
           THEN /\ call' = c
                /\ Return("Dbus", <<>>, NoSignal)
                /\ UNCHANGED <<locked, exists, prompts>>
           ELSE IF ensure_unlocked(o) # "Ok"
           THEN /\ call' = c
                /\ Return(ensure_unlocked(o), <<>>, NoSignal)
                /\ UNCHANGED <<locked, exists, prompts>>
           ELSE DeleteRequest(o, c)
    /\ UNCHANGED <<inbox, connected, matchRules, foreign>>
    /\ UNCHANGED codecVars

\* delete where other clients act between its two round trips. The first is
\* ensure_unlocked, the read of the Locked property.
delete_ensure_unlocked(o) ==
    /\ pc = "idle"
    /\ LET c == [NewCall("delete", {o}, "Delete") EXCEPT !.sent = <<>>]
       IN  /\ call' = c
           /\ IF ~connected \/ o \notin exists
              THEN Return("Dbus", <<>>, NoSignal)
              ELSE IF ensure_unlocked(o) # "Ok"
              THEN Return(ensure_unlocked(o), <<>>, NoSignal)
              ELSE pc' = "delete" /\ ret' = NoRet
    /\ UNCHANGED <<locked, exists, prompts, inbox, connected, matchRules, foreign>>
    /\ UNCHANGED codecVars

\* The second round trip of delete: the Delete request, on the object as it
\* is by now.
delete_request ==
    /\ pc = "delete"
    /\ LET o == CHOOSE x \in call.objs : TRUE
       IN  IF ~connected \/ o \notin exists
           THEN /\ call' = [call EXCEPT !.sent = <<"Delete">>]
                /\ Return("Dbus", <<>>, NoSignal)
                /\ UNCHANGED <<locked, exists, prompts>>
           ELSE DeleteRequest(o, call)
    /\ UNCHANGED <<inbox, connected, matchRules, foreign>>
    /\ UNCHANGED codecVars

\* A client on another connection locks or unlocks an object; the daemon does
\* it at once.
other_client(o, act) ==
    /\ pc # "done"
    /\ o \in exists
    /\ locked[o] # TargetLocked(act)
    /\ locked' = LockedAfter(act, {o})
    /\ UNCHANGED <<prompts, inbox, connected, matchRules, foreign, pc, call, ret>>
    /\ UNCHANGED <<exists, codecVars>>

\* The (created, prompt) replies of CreateCollection: the object created and
\* no prompt; no object yet and a prompt; no object and no prompt; no element
\* at all; an element of another type.
CreateShapes == {"created", "prompt", "neither", "empty", "mistyped"}

CreateReply(shape) ==
    CASE shape = "created" -> <<MObjectPath(FreshObject), MObjectPath(RootPath)>>
      [] shape = "prompt" -> <<MObjectPath(RootPath), MObjectPath(PromptPath(FreshPrompt))>>
      [] shape = "neither" -> <<MObjectPath(RootPath), MObjectPath(RootPath)>>
      [] shape = "empty" -> <<>>
      [] shape = "mistyped" -> <<MStr("?"), MObjectPath(RootPath)>>

\* SecretService::create_collection up to the return or the entry into
\* exec_prompt: one CreateCollection request; the prompt is run when the
\* created path of the reply is "/". Collection::create_item handles its
\* reply with the same code (collection.rs:281-306).
create_collection ==
    /\ pc = "idle"
    /\ exists # Objects
    /\ LET c == [NewCall("create_collection", {}, "Create") EXCEPT
                    !.sent = <<"CreateCollection">>]
       IN  \E outcome \in {"reply", "error"} :
           IF ~connected \/ outcome = "error"
           THEN /\ call' = c
                /\ Return("Dbus", <<>>, NoSignal)
                /\ UNCHANGED <<locked, exists, prompts>>
           ELSE \E shape \in {sh \in CreateShapes : sh = "prompt" => FreshPrompt # 0} :
                LET res == CreateReply(shape)
                    direct == IF shape = "created" THEN {FreshObject} ELSE {}
                    rest == IF shape = "prompt" THEN {FreshObject} ELSE {}
                    r == [c EXCEPT !.res = res]
                IN  /\ exists' = ExistsApplied("Create", direct)
                    /\ locked' = LockedApplied("Create", direct)
                    /\ prompts' = PromptsAfterGated("Create", rest)
                    /\ IF ~HasItem(res, 0)
                       THEN call' = r /\ Return("NoResult", <<>>, NoSignal)
                       ELSE IF GetItem(res, 0).t # "ObjectPath"
                       THEN call' = r /\ Return("panic", <<>>, NoSignal)
                       ELSE IF GetItem(res, 0).v = RootPath
                       THEN IF ~HasItem(res, 1)
                            THEN call' = r /\ Return("NoResult", <<>>, NoSignal)
                            ELSE IF GetItem(res, 1).t # "ObjectPath"
                            THEN call' = r /\ Return("panic", <<>>, NoSignal)
                            ELSE /\ call' = [r EXCEPT !.prompt = GetItem(res, 1).v]
                                 /\ pc' = "exec_prompt"
                                 /\ ret' = NoRet
                       ELSE call' = r /\ Return("Ok", GetItem(res, 0).v, NoSignal)
    /\ UNCHANGED <<inbox, connected, matchRules, foreign>>
    /\ UNCHANGED codecVars

\* The aliases asked for (get_default_collection, get_any_collection).
Aliases == {"default", "session"}

\* A reading of the ReadAlias reply that binds a Collection to any path.
collection_at_any_path(res) ==
    IF ~HasItem(res, 0) THEN Err("panic")
    ELSE IF GetItem(res, 0).t = "ObjectPath" THEN Ok(GetItem(res, 0).v)
    ELSE Err("Parse")
\* get_collection_by_alias's reading of the ReadAlias reply: res[0] (a panic
\* on a reply without elements) is an object path, "/" for no such alias, or
\* the reply cannot be parsed.
collection_at(res) ==
    IF ~HasItem(res, 0) THEN Err("panic")
    ELSE IF GetItem(res, 0).t = "ObjectPath"
    THEN IF GetItem(res, 0).v = RootPath
         THEN Err("NoResult")
         ELSE Ok(GetItem(res, 0).v)
    ELSE Err("Parse")

\* SecretService::get_collection_by_alias: one ReadAlias request. The daemon
\* answers with the path of the object the alias names, or with "/"; the
\* reply may also be empty or carry an element of another type.
get_collection_by_alias(alias) ==
    /\ pc = "idle"
    /\ LET c == [NoCall EXCEPT !.op = "get_collection_by_alias",
                               !.sent = <<MStr(alias)>>]
       IN  \E outcome \in {"reply", "error"} :
           IF ~connected \/ outcome = "error"
           THEN /\ call' = c
                /\ Return("Dbus", <<>>, NoSignal)
           ELSE \E res \in {<<MObjectPath(path)>> : path \in {RootPath} \cup exists}
                            \cup {<<>>, <<MStr("?")>>} :
                /\ call' = [c EXCEPT !.res = res]
                /\ Return(collection_at(res).result, collection_at(res).value, NoSignal)
    /\ UNCHANGED protocolVars
    /\ UNCHANGED codecVars

\* An or_else that prefers the later lookup.
or_else_later(first, second) ==
    IF first.result = "panic" \/ second.result # "Ok" THEN first ELSE second
\* Result::or_else as get_any_collection chains it: the first result if it is
\* Ok (a panic in it ends the call), the result of the next lookup on any
\* error.
or_else(first, second) ==
    IF first.result \in {"Ok", "panic"} THEN first ELSE second

\* SecretService::get_any_collection: the lookups it chains, each made only
\* when the one before returned an error: ReadAlias("default"),
\* ReadAlias("session"), and the Collections property, of which it takes the
\* first entry. A request that failed stands in call.res as <<MNone>>.
get_any_collection ==
    /\ pc = "idle"
    /\ LET replies == {<<MObjectPath(path)>> : path \in {RootPath} \cup exists}
                        \cup {<<>>, <<MStr("?")>>, <<MNone>>}
           by_alias(res) == IF res = <<MNone>> THEN Err("Dbus") ELSE collection_at(res)
           first_of(res) == IF res = <<MNone>> THEN Err("Dbus")
                            ELSE IF ~HasItem(res, 0) THEN Err("NoResult")
                            ELSE Ok(GetItem(res, 0).v)
       IN  \E res1 \in replies, res2 \in replies,
              res3 \in {PathItems(S).v : S \in SUBSET exists} \cup {<<MNone>>} :
           LET default == by_alias(res1)
               session_or_first == or_else(by_alias(res2), first_of(res3))
               got == or_else(default, session_or_first)
               asked == IF default.result \in {"Ok", "panic"} THEN 1
                        ELSE IF by_alias(res2).result \in {"Ok", "panic"} THEN 2
                        ELSE 3
           IN  /\ connected
               /\ call' = [NoCall EXCEPT
                             !.op = "get_any_collection",
                             !.sent = SubSeq(<<MStr("default"), MStr("session"),
                                               MStr("Collections")>>, 1, asked),
                             !.res = SubSeq(<<res1, res2, res3>>, 1, asked)]
               /\ Return(got.result, got.value, NoSignal)
    /\ UNCHANGED protocolVars
    /\ UNCHANGED codecVars

----------------------------------------------------------------------------
(* The client, blocking API: blocking/mod.rs.                              *)

\* An unlock_all that takes no reply for empty.
never_empty(res) == FALSE
\* Vec::is_empty of the reply's object paths.
is_empty(res) == Len(GetItem(res, 0).v) = 0

\* SecretService::unlock_all up to the return or the entry into the prompt
\* protocol: one Unlock request for all the items.
unlock_all(items) ==
    /\ pc = "idle"
    /\ \E outcome \in {"reply", "error"} :
       IF outcome = "error"
       THEN /\ call' = NewCall("unlock_all", items, "Unlock")
            /\ Return("Zbus", <<>>, NoSignal)
            /\ UNCHANGED <<locked, prompts>>
       ELSE \E direct \in DirectChoices(items, "Unlock") :
            LET rest == items \ direct
                res == LockReply(direct, PromptPathFor(rest))
                c == [NewCall("unlock_all", items, "Unlock") EXCEPT !.res = res]
            IN  /\ locked' = LockedAfter("Unlock", direct)
                /\ prompts' = PromptsAfterGated("Unlock", rest)
                /\ IF is_empty(res)
                   THEN /\ call' = [c EXCEPT !.prompt = GetItem(res, 1).v]
                        /\ pc' = "exec_prompt_blocking"
                        /\ ret' = NoRet
                   ELSE /\ call' = c
                        /\ Return("Ok", <<>>, NoSignal)
    /\ UNCHANGED <<inbox, connected, matchRules, foreign>>
    /\ UNCHANGED <<exists, codecVars>>

\* Collection::delete / Item::delete of the blocking API up to the return or
\* the entry into the prompt protocol: ensure_unlocked, which reads the
\* Locked property, then one Delete request, whose reply is the prompt path.
delete_blocking(o) ==
    /\ pc = "idle"
    /\ LET c == [NewCall("delete_blocking", {o}, "Delete") EXCEPT !.sent = <<>>]
           asked == [c EXCEPT !.sent = <<"Delete">>]
       IN  IF ~connected \/ o \notin exists
           THEN /\ call' = c
                /\ Return("Zbus", <<>>, NoSignal)
                /\ UNCHANGED <<locked, exists, prompts>>
           ELSE IF ensure_unlocked(o) # "Ok"
           THEN /\ call' = c
                /\ Return(ensure_unlocked(o), <<>>, NoSignal)
                /\ UNCHANGED <<locked, exists, prompts>>
           ELSE \E outcome \in {"reply", "error"} :
                IF outcome = "error"
                THEN /\ call' = asked
                     /\ Return("Zbus", <<>>, NoSignal)
                     /\ UNCHANGED <<locked, exists, prompts>>
                ELSE \E direct \in {b \in BOOLEAN : b \/ FreshPrompt # 0} :
                     LET rest == IF direct THEN {} ELSE {o}
                         prompt_path == PromptPathFor(rest)
                     IN  /\ exists' = IF direct THEN ExistsApplied("Delete", {o}) ELSE exists
                         /\ locked' = IF direct THEN LockedApplied("Delete", {o}) ELSE locked
                         /\ prompts' = PromptsAfterGated("Delete", rest)
                         /\ IF prompt_path # RootPath
                            THEN /\ call' = [asked EXCEPT !.res = <<MObjectPath(prompt_path)>>,
                                                 !.prompt = prompt_path]
                                 /\ pc' = "exec_prompt_blocking"
                                 /\ ret' = NoRet
                            ELSE /\ call' = [asked EXCEPT !.res = <<MObjectPath(prompt_path)>>]
                                 /\ Return("Ok", <<>>, NoSignal)
    /\ UNCHANGED <<inbox, connected, matchRules, foreign>>
    /\ UNCHANGED codecVars

\* The prompt protocol of the blocking API, first part: subscribe to the
\* Completed signal of the prompt, then call Prompt(""). A path with no prompt
\* object to show fails the call.
exec_prompt_blocking_call ==
    /\ pc = "exec_prompt_blocking"
    /\ IF Showable(call.prompt)
       THEN /\ matchRules' = matchRules \cup {call.prompt}
            /\ prompts' = [prompts EXCEPT ![PromptIdOf(call.prompt)].state = "shown"]
            /\ pc' = "await_blocking"
            /\ UNCHANGED ret
       ELSE /\ Return("Zbus", <<>>, NoSignal)
            /\ UNCHANGED <<matchRules, prompts>>
    /\ call' = [call EXCEPT !.prompted = @ + 1]
    /\ UNCHANGED <<locked, inbox, connected, foreign>>
    /\ UNCHANGED <<exists, codecVars>>

\* The prompt protocol of the blocking API, second part: the next signal of
\* the subscription. Only Completed of the awaited prompt resolves the wait;
\* the subscription ends with it.
exec_prompt_blocking_next ==
    /\ pc = "await_blocking"
    /\ inbox # <<>>
    /\ LET sig == Head(inbox)
       IN  IF sig.path = call.prompt /\ sig.member = CompletedMember
           THEN /\ inbox' = <<>>
                /\ matchRules' = matchRules \ {call.prompt}
                /\ IF GetItem(sig.items, 0).v
                   THEN /\ Return("Prompt", <<>>, sig)
                        /\ UNCHANGED call
                   ELSE /\ call' = [call EXCEPT !.payload = GetItem(sig.items, 1)]
                        /\ Return("Ok", <<>>, sig)
           ELSE /\ inbox' = Tail(inbox)
                /\ UNCHANGED <<matchRules, pc, ret, call>>
    /\ UNCHANGED <<locked, prompts, connected, foreign>>
    /\ UNCHANGED <<exists, codecVars>>

----------------------------------------------------------------------------
(* The client, secrets: create_item, set_secret, get_secret.               *)

\* A store whose request leaves the secret of an item that has one in place.
StoreSecret_keeping_first(op, secret) ==
    \E aes_iv \in IVs :
        LET secret_struct == format_secret(session, secret, "text/plain", aes_iv)
            got == DaemonDecode(secret_struct, session)
        IN  /\ wire' = secret_struct
            /\ call' = [NoCall EXCEPT !.op = op, !.aes_iv = aes_iv]
            /\ IF got.result = "Ok"
               THEN /\ stored' = IF stored.some THEN stored ELSE SomeSecret(got.value)
                    /\ written' = [some |-> TRUE, bytes |-> secret,
                                    key |-> get_aes_key(session)]
                    /\ Return("Ok", <<>>, NoSignal)
               ELSE /\ UNCHANGED <<stored, written>>
                    /\ Return("Zbus", <<>>, NoSignal)

\* The store of a secret: format_secret and the request carrying the struct.
\* The daemon keeps the secret it decoded; a struct it cannot decode fails the
\* request.
StoreSecret(op, secret) ==
    \E aes_iv \in IVs :
        LET secret_struct == format_secret(session, secret, "text/plain", aes_iv)
            got == DaemonDecode(secret_struct, session)
        IN  /\ wire' = secret_struct
            /\ call' = [NoCall EXCEPT !.op = op, !.aes_iv = aes_iv]
            /\ IF got.result = "Ok"
               THEN /\ stored' = SomeSecret(got.value)
                    /\ written' = [some |-> TRUE, bytes |-> secret,
                                    key |-> get_aes_key(session)]
                    /\ Return("Ok", <<>>, NoSignal)
               ELSE /\ UNCHANGED <<stored, written>>
                    /\ Return("Zbus", <<>>, NoSignal)

\* Collection::create_item in an unlocked collection: the daemon creates the
\* item (or replaces it) without a prompt.
create_item(secret) ==
    /\ pc = "idle"
    /\ StoreSecret("create_item", secret)
    /\ UNCHANGED <<session, keypairs, ivs, attributes, given>>
    /\ UNCHANGED protocolVars

\* Item::set_secret on the item created.
set_secret(secret) ==
    /\ pc = "idle"
    /\ stored.some
    /\ StoreSecret("set_secret", secret)
    /\ UNCHANGED <<session, keypairs, ivs, attributes, given>>
    /\ UNCHANGED protocolVars

\* A get_secret that takes the key out of the session it decrypts with.
get_secret_taking_key ==
    /\ pc = "idle"
    /\ stored.some
    /\ \E iv \in IVs :
        LET item == DaemonEncode(stored.bytes, session, iv)
            got == DecodeSecret(session, SecretStruct(item))
        IN  /\ wire' = item
            /\ call' = [NoCall EXCEPT !.op = "get_secret"]
            /\ Return(got.result, got.value, NoSignal)
    /\ session' = [session EXCEPT !.aes_key = NoKey]
    /\ UNCHANGED <<stored, written, keypairs, ivs, attributes, given>>
    /\ UNCHANGED protocolVars
\* Item::get_secret on the item created.
get_secret ==
    /\ pc = "idle"
    /\ stored.some
    /\ \E iv \in IVs :
        LET item == DaemonEncode(stored.bytes, session, iv)
            got == DecodeSecret(session, SecretStruct(item))
        IN  /\ wire' = item
            /\ call' = [NoCall EXCEPT !.op = "get_secret"]
            /\ Return(got.result, got.value, NoSignal)
    /\ UNCHANGED <<stored, session, written, keypairs, ivs, attributes, given>>
    /\ UNCHANGED protocolVars

\* Item::get_secret on the item created, the record the daemon sends carrying
\* parameters of any length: none, the 16 bytes of an IV, a byte less or a
\* byte more.
get_secret_parameters(parameters) ==
    /\ pc = "idle"
    /\ stored.some
    /\ \E iv \in IVs :
        LET encoded == DaemonEncode(stored.bytes, session, iv)
            item == MStruct([encoded.v EXCEPT ![2] = FromBytes(parameters)])
            got == DecodeSecret(session, SecretStruct(item))
        IN  /\ wire' = item
            /\ call' = [NoCall EXCEPT !.op = "get_secret"]
            /\ Return(got.result, got.value, NoSignal)
    /\ UNCHANGED <<stored, session, written, keypairs, ivs, attributes, given>>
    /\ UNCHANGED protocolVars

\* The attribute lists a caller passes, Vec<(&str, &str)>: up to MaxAttributes
\* pairs of a key and a value, a key twice included.
MaxAttributes == 2
AttributeLists ==
    UNION {[1..n -> {"k1", "k2"} \X {"a", "b"}] : n \in 0..MaxAttributes}

\* The dictionary the daemon makes of the array of dict entries it was sent.
\* An array with a key twice is one the bus specification calls corrupt and
\* lets a receiver take: the daemon keeps the first or the last entry of a
\* key.
DictOf(entries, keep) ==
    {entries[i] : i \in {j \in 1..Len(entries) :
        \A k \in 1..Len(entries) :
            entries[k][1] = entries[j][1]
                => IF keep = "first" THEN k >= j ELSE k <= j}}

\* Collection::create_item with attributes and the secret b"test": the dict
\* entry of the attributes is part of the properties only when the list is
\* not empty. The provider may add an attribute of its own to an item.
create_item_attributes(attrs) ==
    /\ pc = "idle"
    /\ StoreSecret("create_item", Ramp(4))
    /\ \E keep \in {"first", "last"}, extra \in SUBSET {<<"xdg:schema", "s">>} :
        IF ret'.result = "Ok"
        THEN /\ attributes' = DictOf(attrs, keep) \cup extra
             /\ given' = attrs
        ELSE UNCHANGED <<attributes, given>>
    /\ UNCHANGED <<session, keypairs, ivs>>
    /\ UNCHANGED protocolVars

\* A set_attributes that sends whatever list it is given, the empty one too.
set_attributes_of_any_list(attrs) ==
    /\ pc = "idle"
    /\ stored.some
    /\ \E outcome \in {"first", "last", "error"},
          extra \in SUBSET {<<"xdg:schema", "s">>} :
        /\ call' = [NoCall EXCEPT !.op = "set_attributes", !.sent = <<attrs>>]
        /\ IF outcome = "error"
           THEN /\ Return("Dbus", <<>>, NoSignal)
                /\ UNCHANGED <<attributes, given>>
           ELSE /\ attributes' = DictOf(attrs, outcome) \cup extra
                /\ given' = attrs
                /\ Return("Ok", <<>>, NoSignal)
    /\ UNCHANGED <<stored, session, written, wire, keypairs, ivs>>
    /\ UNCHANGED protocolVars
\* Item::set_attributes: one Set of the property Attributes, and none at all
\* for an empty list.
set_attributes(attrs) ==
    /\ pc = "idle"
    /\ stored.some
    /\ LET c == [NoCall EXCEPT !.op = "set_attributes"]
       IN  IF attrs = <<>>
           THEN /\ call' = c
                /\ Return("Ok", <<>>, NoSignal)
                /\ UNCHANGED <<attributes, given>>
           ELSE \E outcome \in {"first", "last", "error"},
                   extra \in SUBSET {<<"xdg:schema", "s">>} :
                /\ call' = [c EXCEPT !.sent = <<attrs>>]
                /\ IF outcome = "error"
                   THEN /\ Return("Dbus", <<>>, NoSignal)
                        /\ UNCHANGED <<attributes, given>>
                   ELSE /\ attributes' = DictOf(attrs, outcome) \cup extra
                        /\ given' = attrs
                        /\ Return("Ok", <<>>, NoSignal)
    /\ UNCHANGED <<stored, session, written, wire, keypairs, ivs>>
    /\ UNCHANGED protocolVars

\* Item::get_attributes: one Get of the property Attributes; the pairs of the
\* array's dict entries are returned, and a value that is no array is a
\* Parse error.
get_attributes ==
    /\ pc = "idle"
    /\ stored.some
    /\ \E outcome \in {"reply", "mistyped", "error"} :
        /\ call' = [NoCall EXCEPT !.op = "get_attributes"]
        /\ CASE outcome = "reply" -> Return("Ok", attributes, NoSignal)
             [] outcome = "mistyped" -> Return("Parse", <<>>, NoSignal)
             [] OTHER -> Return("Dbus", <<>>, NoSignal)
    /\ UNCHANGED <<stored, session, written, wire, keypairs, ivs, attributes, given>>
    /\ UNCHANGED protocolVars

\* SecretService::connect by a caller that has a service already: a new
\* connection and a new session of the mode asked for, its key whatever the
\* key exchange ended in; the item stays with the daemon. When connect fails
\* the caller has the service it had.
connect(encryption) ==
    /\ pc = "idle"
    /\ \E outcome \in {"reply", "error"},
          s \in {x \in Sessions : (get_aes_key(x) # NoKey) <=> (encryption = "Dh")} :
        /\ call' = [NoCall EXCEPT !.op = "connect", !.act = encryption]
        /\ IF outcome = "reply"
           THEN /\ session' = s
                /\ ivs' = {}
                /\ Return("Ok", <<>>, NoSignal)
           ELSE /\ UNCHANGED <<session, ivs>>
                /\ Return("Zbus", <<>>, NoSignal)
    /\ UNCHANGED <<stored, written, wire, keypairs, attributes, given>>
    /\ UNCHANGED protocolVars

\* Session::new_blocking: the Keypair drawn for a Dh session, and one
\* OpenSession round trip. The daemon answers a Dh request with the public
\* key of a Keypair of its own; the reply may also carry an output that is no
\* byte array, or be an error. A SecretService opens its session once, when
\* it is constructed.
new_blocking(encryption) ==
    /\ pc = "idle"
    /\ session = NoSession
    /\ \E private_key \in Exponents, server_private \in Exponents,
          outcome \in {"reply", "mistyped", "error"} :
        LET dh == (encryption = "Dh")
            keypair == IF dh THEN Keypair(private_key) ELSE NoKeypair
            input == IF dh THEN FromBytes(to_bytes_be(keypair.public)) ELSE MStr("")
            server == IF dh /\ outcome # "error" THEN Keypair(server_private)
                      ELSE NoKeypair
            output == IF dh /\ outcome = "reply"
                      THEN FromBytes(to_bytes_be(server.public))
                      ELSE MStr("")
            opened == OpenSessionResult(output, SessionPath)
            made == IF dh THEN encrypted_session(keypair, opened)
                    ELSE Ok([object_path |-> opened.result, aes_key |-> NoKey])
            c == [NoCall EXCEPT !.op = "new_blocking", !.act = encryption,
                                !.sent = <<input>>]
        IN  /\ keypairs' = [client |-> keypair, server |-> server]
            /\ IF outcome = "error"
               THEN /\ call' = c
                    /\ Return("Zbus", <<>>, NoSignal)
                    /\ UNCHANGED session
               ELSE /\ call' = [c EXCEPT !.res = <<opened.output, MObjectPath(opened.result)>>]
                    /\ IF made.result = "Ok"
                       THEN session' = made.value /\ Return("Ok", <<>>, NoSignal)
                       ELSE UNCHANGED session /\ Return(made.result, <<>>, NoSignal)
    /\ UNCHANGED <<stored, written, wire, ivs, attributes, given>>
    /\ UNCHANGED protocolVars

\* The public keys a daemon may send: 0, 1, keys below the prime, the prime,
\* and keys above it, up to the greatest whose square is below 2^31.
ServerPublicKeys ==
    {0, 1, 2, 255, 256, DH_PRIME - 1, DH_PRIME, DH_PRIME + 1, 2 * DH_PRIME + 5, 46340}

\* powm(base, exp, modulus), as Keypair::generate and derive_shared call it:
\* the result, and the turns its loop took.
powm_call(base, exp, modulus) ==
    /\ pc = "idle"
    /\ call' = [NoCall EXCEPT !.op = "powm", !.sent = <<base, exp, modulus>>]
    /\ Return("Ok", <<powm(base, exp, modulus), powm_turns(exp)>>, NoSignal)
    /\ UNCHANGED <<session, stored, written, wire, keypairs, ivs, attributes, given>>
    /\ UNCHANGED protocolVars

\* Keypair::derive_shared on a keypair of a given private key and the public
\* key of a daemon. 128 - len is a subtraction of usize: with more than 128
\* bytes it panics (or wraps to a length no vector can have, which aborts).
derive_shared_call(private_key, server_public_key) ==
    /\ pc = "idle"
    /\ LET keypair == Keypair(private_key)
           len == Len(to_bytes_be(powm(server_public_key, keypair.private, DH_PRIME)))
           c == [NoCall EXCEPT !.op = "derive_shared",
                               !.sent = <<private_key, server_public_key>>]
       IN  IF len > 128
           THEN /\ call' = c
                /\ Return("panic", <<>>, NoSignal)
           ELSE /\ call' = [c EXCEPT
                                !.payload = common_secret_padded(keypair, server_public_key)]
                /\ Return("Ok", derive_shared(keypair, server_public_key), NoSignal)
    /\ UNCHANGED <<session, stored, written, wire, keypairs, ivs, attributes, given>>
    /\ UNCHANGED protocolVars

\* The value of a secret struct as it reaches the client: as the daemon
\* encoded it, one byte short, or with its last byte changed.
Tampers == {"intact", "short", "padding"}

Tamper(bytes, how) ==
    IF how = "intact" \/ Len(bytes) = 0 THEN bytes
    ELSE IF how = "short" THEN SubSeq(bytes, 1, Len(bytes) - 1)
    ELSE [bytes EXCEPT ![Len(bytes)] = 0]

\* Item::get_secret of the dbus API on the item created: the value is element
\* 2 of the struct and the IV element 1; in an encrypted session the result of
\* decrypt is unwrapped, so that its error is a panic.
item_get_secret ==
    /\ pc = "idle"
    /\ stored.some
    /\ \E iv \in IVs, how \in Tampers :
        LET encoded == DaemonEncode(stored.bytes, session, iv)
            secret_vec == [encoded.v EXCEPT
                              ![3] = FromBytes(Tamper(ToBytes(encoded.v[3]), how))]
            secret == ToBytes(GetItem(secret_vec, 2))
            aes_iv == ToBytes(GetItem(secret_vec, 1))
            decrypted_secret == decrypt(secret, get_aes_key(session), aes_iv)
            got == IF get_aes_key(session) = NoKey THEN Ok(secret)
                   ELSE IF decrypted_secret.result = "Ok" THEN decrypted_secret
                   ELSE Err("panic")
        IN  /\ wire' = MStruct(secret_vec)
            /\ call' = [NoCall EXCEPT !.op = "item_get_secret"]
            /\ Return(got.result, got.value, NoSignal)
    /\ UNCHANGED <<stored, session, written, keypairs, ivs, attributes, given>>
    /\ UNCHANGED protocolVars

----------------------------------------------------------------------------
(* The environment: the user answering a prompt, and other senders.        *)

\* Whether a signal of the daemon reaches the connection: a signal addressed
\* to it always does, a broadcast only under a match rule.
Routed(path, mode) ==
    connected /\ (mode = "unicast" \/ path \in matchRules)

\* The user answers prompt n: the daemon performs the gated action unless
\* dismissed, and emits Completed.
PromptCompleted(n, dismissed) ==
    /\ pc # "done"
    /\ prompts[n].state = "shown"
    /\ \E mode \in {"unicast", "broadcast"} :
        LET p == prompts[n]
        IN  /\ prompts' = [prompts EXCEPT ![n] = GonePrompt]
            /\ call' = IF pc \in {"await", "await_blocking"} /\ call.prompt = PromptPath(n)
                       THEN [call EXCEPT !.answer = IF dismissed THEN "dismissed"
                                                    ELSE "accepted"]
                       ELSE call
            /\ inbox' = IF Routed(PromptPath(n), mode)
                        THEN Append(inbox, CompletedSignal(n, dismissed, PromptResult(p, dismissed)))
                        ELSE inbox
            /\ locked' = IF dismissed THEN locked ELSE LockedApplied(p.act, p.objs)
            /\ exists' = IF dismissed THEN exists ELSE ExistsApplied(p.act, p.objs)
    /\ UNCHANGED <<connected, matchRules, foreign, pc, ret>>
    /\ UNCHANGED codecVars

\* Another client, on a connection of its own, unlocks the locked object o:
\* the daemon made a prompt object for that call too, the one after the
\* prompts of this client. The user answers it: the daemon unlocks o unless
\* dismissed and emits the prompt's Completed, to the other client or as a
\* broadcast; a broadcast reaches this connection under a match rule alone.
other_prompt_completed(o, dismissed) ==
    /\ pc # "done"
    /\ o \in exists
    /\ locked[o]
    /\ locked' = IF dismissed THEN locked ELSE LockedAfter("Unlock", {o})
    /\ inbox' = IF Routed(PromptPath(MaxPrompts + 1), "broadcast")
                THEN Append(inbox, CompletedSignal(MaxPrompts + 1, dismissed,
                                                   IF dismissed THEN MStr("") ELSE PathItems({o})))
                ELSE inbox
    /\ UNCHANGED <<prompts, connected, matchRules, foreign, pc, call, ret>>
    /\ UNCHANGED <<exists, codecVars>>

\* Another sender addresses a signal to the connection.
ForeignSignal(s) ==
    /\ pc # "done"
    /\ connected
    /\ foreign < MaxForeign
    /\ foreign' = foreign + 1
    /\ inbox' = Append(inbox, s)
    /\ UNCHANGED <<locked, prompts, connected, matchRules, pc, call, ret>>
    /\ UNCHANGED <<exists, codecVars>>

\* The caller has the result of its call and goes on. The state in which a
\* call has just returned is left by this step alone: what the environment
\* does next it does after the caller has looked at the result. The struct
\* that went over the bus is gone with the call; the IV of a record built in
\* an encrypted session is from now on one used before.
Resume ==
    /\ pc = "done"
    /\ pc' = "idle"
    /\ call' = NoCall
    /\ ret' = NoRet
    /\ wire' = MNone
    /\ ivs' = IF call.op \in {"create_item", "set_secret"} /\ get_aes_key(session) # NoKey
              THEN ivs \cup {SecretStruct(wire).parameters}
              ELSE ivs
    /\ UNCHANGED protocolVars
    /\ UNCHANGED <<stored, session, written, keypairs, attributes, given>>

----------------------------------------------------------------------------
(* Specifications. *)

InitClient ==
    /\ pc = "idle"
    /\ call = NoCall
    /\ ret = NoRet

InitConnection ==
    /\ inbox = <<>>
    /\ connected = TRUE
    /\ matchRules = {}
    /\ foreign = 0
    /\ prompts = [n \in PromptIds |-> NoPrompt]

InitNoItemSecret ==
    /\ stored = NoSecret
    /\ written = [some |-> FALSE, bytes |-> <<>>, key |-> NoKey]
    /\ wire = MNone
    /\ keypairs = NoKeypairs
    /\ ivs = {}
    /\ attributes = {}
    /\ given = <<>>

\* The lock/prompt protocol: objects in any lock state, a plain session.
Init ==
    /\ locked \in [Objects -> BOOLEAN]
    /\ exists = Objects
    /\ session = PlainSession
    /\ InitConnection
    /\ InitNoItemSecret
    /\ InitClient

\* The dbus API: lock and unlock of one object, with the prompt.
Next ==
    \/ \E o \in Objects, act \in {"Lock", "Unlock"} : lock_or_unlock(o, act)
    \/ exec_prompt_call
    \/ exec_prompt_next
    \/ Resume
    \/ \E n \in PromptIds, d \in BOOLEAN : PromptCompleted(n, d)
    \/ \E s \in ForeignSignals : ForeignSignal(s)

Spec == Init /\ [][Next]_vars

\* The same under the scheduling the code has: the thread in exec_prompt
\* runs, so a signal that lies in the connection's queue is read in the end
\* and a caller that has its result goes on. The loss of the connection and
\* whatever the daemon, the user and other senders do is up to them.
SpecFair ==
    /\ Spec
    /\ WF_vars(exec_prompt_next /\ inbox # <<>>)
    /\ WF_vars(Resume)

\* The blocking API: unlock_all, with the prompt.
NextBlocking ==
    \/ \E items \in SUBSET Objects : unlock_all(items)
    \/ exec_prompt_blocking_call
    \/ exec_prompt_blocking_next
    \/ Resume
    \/ \E n \in PromptIds, d \in BOOLEAN : PromptCompleted(n, d)

SpecBlocking == Init /\ [][NextBlocking]_vars

\* Deletion and creation: any of the objects exported, those not exported
\* unlocked.
InitGated ==
    /\ exists \in SUBSET Objects
    /\ locked \in {l \in [Objects -> BOOLEAN] : \A o \in Objects \ exists : ~l[o]}
    /\ session = PlainSession
    /\ InitConnection
    /\ InitNoItemSecret
    /\ InitClient

\* The blocking API: delete, and unlock_all of objects there are, with the
\* prompt.
NextBlockingDelete ==
    \/ \E o \in Objects : delete_blocking(o)
    \/ \E items \in SUBSET exists : unlock_all(items)
    \/ exec_prompt_blocking_call
    \/ exec_prompt_blocking_next
    \/ Resume
    \/ \E n \in PromptIds, d \in BOOLEAN : PromptCompleted(n, d)

SpecBlockingDelete == InitGated /\ [][NextBlockingDelete]_vars

\* The dbus API: delete, one round trip at a time, among other clients.
NextRace ==
    \/ \E o \in Objects : delete_ensure_unlocked(o)
    \/ delete_request
    \/ exec_prompt_call
    \/ exec_prompt_next
    \/ Resume
    \/ \E n \in PromptIds, d \in BOOLEAN : PromptCompleted(n, d)
    \/ \E o \in Objects, act \in {"Lock", "Unlock"} : other_client(o, act)

SpecRace == InitGated /\ [][NextRace]_vars

\* The dbus API: lock and unlock of one object while another client unlocks
\* objects through a prompt of its own.
NextRival ==
    \/ \E o \in Objects, act \in {"Lock", "Unlock"} : lock_or_unlock(o, act)
    \/ exec_prompt_call
    \/ exec_prompt_next
    \/ Resume
    \/ \E n \in PromptIds, d \in BOOLEAN : PromptCompleted(n, d)
    \/ \E o \in Objects, d \in BOOLEAN : other_prompt_completed(o, d)
    \/ \E s \in ForeignSignals : ForeignSignal(s)

SpecRival == Init /\ [][NextRival]_vars

\* The dbus API: delete and create_collection, with the prompt, and the
\* lookup of a collection by its alias.
NextGated ==
    \/ \E o \in Objects : delete(o)
    \/ create_collection
    \/ \E alias \in Aliases : get_collection_by_alias(alias)
    \/ exec_prompt_call
    \/ exec_prompt_next
    \/ Resume
    \/ \E n \in PromptIds, d \in BOOLEAN : PromptCompleted(n, d)
    \/ \E s \in ForeignSignals : ForeignSignal(s)

SpecGated == InitGated /\ [][NextGated]_vars

\* The lookup of some collection, over the same initial states.
NextLookup ==
    \/ get_any_collection
    \/ Resume

SpecLookup == InitGated /\ [][NextLookup]_vars

\* The secret codec: a session of either mode, an unlocked collection.
InitCodec ==
    /\ locked = [o \in Objects |-> FALSE]
    /\ exists = Objects
    /\ session \in Sessions
    /\ InitConnection
    /\ InitNoItemSecret
    /\ InitClient

NextCodec ==
    \/ \E secret \in Secrets : create_item(secret)
    \/ \E secret \in Secrets : set_secret(secret)
    \/ get_secret
    \/ item_get_secret
    \/ Resume

SpecCodec == InitCodec /\ [][NextCodec]_vars

\* Secrets across connections: the caller stores and reads secrets of every
\* length and connects anew between the calls.
NextAcross ==
    \/ \E n \in 0..MaxSecretLen : create_item(Ramp(n))
    \/ get_secret
    \/ \E encryption \in {"Plain", "Dh"} : connect(encryption)
    \/ Resume

SpecAcross == InitCodec /\ [][NextAcross]_vars

\* Reads of a record whose parameters the daemon chose.
NextParameters ==
    \/ \E n \in {0, 4, BlockSize} : create_item(Ramp(n))
    \/ \E n \in {0, BlockSize - 1, BlockSize, BlockSize + 1} :
            get_secret_parameters(Ramp(n))
    \/ Resume

SpecParameters == InitCodec /\ [][NextParameters]_vars

\* The secret of an item set anew: the item is created with the four bytes
\* of one secret, as often as the caller likes, and set to any secret.
NextOverwrite ==
    \/ create_item(Ramp(4))
    \/ \E secret \in Secrets : set_secret(secret)
    \/ get_secret
    \/ Resume

SpecOverwrite == InitCodec /\ [][NextOverwrite]_vars

\* The attributes of an item: created with a list of attributes, set to a
\* list, and read.
NextAttributes ==
    \/ \E attrs \in AttributeLists : create_item_attributes(attrs)
    \/ \E attrs \in AttributeLists : set_attributes(attrs)
    \/ get_attributes
    \/ Resume

SpecAttributes == InitCodec /\ [][NextAttributes]_vars

\* The attributes of an item, created with a list that names no key twice,
\* under set_attributes of the empty list alone.
NextEmptyAttributes ==
    \/ \E attrs \in {a \in AttributeLists :
                        \A i, j \in 1..Len(a) : a[i][1] = a[j][1] => i = j} :
            create_item_attributes(attrs)
    \/ set_attributes(<<>>)
    \/ get_attributes
    \/ Resume

SpecEmptyAttributes == InitCodec /\ [][NextEmptyAttributes]_vars

\* The opening of sessions: no session yet.
InitSession ==
    /\ locked = [o \in Objects |-> FALSE]
    /\ exists = Objects
    /\ session = NoSession
    /\ InitConnection
    /\ InitNoItemSecret
    /\ InitClient

NextSession ==
    \/ \E encryption \in {"Plain", "Dh"} : new_blocking(encryption)
    \/ Resume

SpecSession == InitSession /\ [][NextSession]_vars

\* The arithmetic of the key exchange by itself.
NextPowm ==
    \/ \E base \in 0..MaxBase, exp \in Exponents, modulus \in 2..(MaxBase + 2) :
            powm_call(base, exp, modulus)
    \/ \E private_key \in Exponents, server_public_key \in ServerPublicKeys :
            derive_shared_call(private_key, server_public_key)
    \/ Resume

SpecPowm == InitSession /\ [][NextPowm]_vars

----------------------------------------------------------------------------
(* Properties. *)

\* A Lock/Unlock reply of the declared types: (array, object path).
WellTyped(res) ==
    /\ Len(res) = 2
    /\ res[1].t = "Array"
    /\ res[2].t = "ObjectPath"

\* Whether a signal is Completed with dismissed == true.
IsDismissal(sig) ==
    /\ sig.member = CompletedMember
    /\ sig.items[1] = MBool(TRUE)

\* Whether Completed of the prompt the call awaits is among the signals the
\* connection holds.
CompletionPending ==
    \E i \in 1..Len(inbox) :
        inbox[i].path = call.prompt /\ inbox[i].member = CompletedMember

\* C1: a secret stored with create_item or set_secret and then read with
\* get_secret through the same session comes back byte for byte, in a plain
\* and in an encrypted session, the empty secret included.
C1_RoundTrip ==
    (pc = "done" /\ call.op = "get_secret" /\ written.some)
        => (ret.result = "Ok" /\ ret.value = written.bytes)

\* The empty secret read back through an encrypted session.
C1_EmptyEncryptedReadBack ==
    /\ pc = "done"
    /\ call.op = "get_secret"
    /\ get_aes_key(session) # NoKey
    /\ written.some
    /\ Len(written.bytes) = 0
    /\ ret.result = "Ok"
    /\ Len(wire.v[3].v) = BlockSize

\* C2: once unlock_all has read the Unlock reply, the prompt protocol has been
\* entered if and only if the reply's prompt path is not the root path "/".
C2_PromptSentinel ==
    (call.op = "unlock_all" /\ WellTyped(call.res))
        => ((call.prompt # NoPath) <=> (call.res[2].v # RootPath))

\* C3: while exec_prompt waits, having called Prompt, the connection is
\* subscribed to the prompt's Completed signal, and a completion the daemon
\* has emitted for the prompt is held by the connection.
C3_SubscribedBeforePrompt ==
    (pc = "await")
        => /\ call.prompt \in matchRules
           /\ (call.answer # "none" => CompletionPending)

\* C4: the signal exec_prompt resolves on is Completed of the prompt object it
\* was called for, whatever else reached the connection.
C4_OwnCompletion ==
    (pc = "done" /\ ret.sig # NoSignal)
        => (ret.sig.path = call.prompt /\ ret.sig.member = CompletedMember)

\* C5: when the Completed signal of the awaited prompt has reached the
\* connection with dismissed == true, the call ends in the prompt-dismissed
\* error and exec_prompt has handed no payload to its caller.
C5_DismissalPropagates ==
    (pc = "done" /\ call.op = "lock_or_unlock" /\ call.answer = "dismissed"
        /\ (ret.sig = CompletedSignal(PromptIdOf(call.prompt), TRUE, MStr(""))
            \/ CompletionPending))
        => (ret.result = "Prompt" /\ call.payload = MNone)

C7_OkMeansTargetState ==
    (pc = "done" /\ call.op = "lock_or_unlock" /\ WellTyped(call.res)
        /\ ret.result = "Ok")
        => \A o \in call.objs :
            /\ is_locked(o) = TargetLocked(call.act)
            /\ (call.act = "Unlock" => ensure_unlocked(o) = "Ok")

C9_DismissedLeavesState ==
    (pc = "done" /\ call.op = "lock_or_unlock" /\ WellTyped(call.res)
        /\ Len(call.res[1].v) = 0 /\ call.answer = "dismissed")
        => (ret.result = "Prompt" /\ LockedAmong(call.objs) = call.before)

\* C10: a call ends in the prompt-dismissed error only on a Completed signal
\* with dismissed == true.
C10_PromptErrorOnlyOnDismissal ==
    (pc = "done" /\ ret.result = "Prompt")
        => (ret.sig # NoSignal /\ IsDismissal(ret.sig))

\* C11: a Lock/Unlock reply whose first element is not an array or whose
\* second element is not an object path never makes lock_or_unlock return Ok:
\* the caller gets an error.
C11_MalformedReplyIsError ==
    (pc = "done" /\ call.op = "lock_or_unlock" /\ Len(call.res) > 0
        /\ ~WellTyped(call.res))
        => ret.result # "Ok"

\* C12: no call retries: within one call the gated request and the Prompt
\* request are each sent at most once, and after the user dismissed the
\* call's prompt the call has returned the prompt error and the daemon's
\* objects are as they were when the call began.
C12_NoRetry ==
    /\ Len(call.sent) <= 1
    /\ call.prompted <= 1
    /\ (pc = "done" /\ call.answer = "dismissed")
            => (ret.result = "Prompt" /\ exists = call.existed)

\* C13: get_secret in an encrypted session, on a value whose length is not a
\* multiple of the block size or whose padding is corrupted, returns the
\* Crypto error: no panic, no bytes handed back as the secret.
C13_BadValueIsCryptoError ==
    LET s == SecretStruct(wire)
        key == get_aes_key(session)
    IN  (/\ pc = "done"
         /\ call.op \in {"get_secret", "item_get_secret"}
         /\ key # NoKey
         /\ \/ Len(s.value) % BlockSize # 0
            \/ Pkcs7Unpad(CbcDecrypt(key, s.parameters, s.value)).result # "Ok")
            => ret.result = "Crypto"

\* C14: once the Delete request was answered with a prompt path, delete has
\* two outcomes: on "/" it returns Ok and runs no prompt; on any other path
\* it runs the prompt on that path, once, and returns Ok when the user
\* accepted and the prompt error when the user dismissed.
C14_DeleteTwoOutcomes ==
    (/\ pc = "done"
     /\ call.op = "delete"
     /\ HasItem(call.res, 0)
     /\ GetItem(call.res, 0).t = "ObjectPath")
        => IF GetItem(call.res, 0).v = RootPath
           THEN ret.result = "Ok" /\ call.prompted = 0
           ELSE /\ call.prompt = GetItem(call.res, 0).v
                /\ call.prompted = 1
                /\ call.answer = "accepted" => ret.result = "Ok"
                /\ call.answer = "dismissed" => ret.result = "Prompt"

\* C15: create_collection (as create_item) runs the prompt exactly when the
\* prompt path of the reply is not "/": no Prompt request on "/", one on any
\* other path; and when the prompt ran and the call returned Ok, the path
\* returned is the one in the payload of that prompt's Completed signal.
C15_PromptIffPromptPath ==
    (/\ pc = "done"
     /\ call.op = "create_collection"
     /\ HasItem(call.res, 1)
     /\ GetItem(call.res, 0).t = "ObjectPath"
     /\ GetItem(call.res, 1).t = "ObjectPath")
        => /\ GetItem(call.res, 1).v = RootPath => call.prompted = 0
           /\ GetItem(call.res, 1).v # RootPath =>
                (call.prompted = 1 /\ call.prompt = GetItem(call.res, 1).v)
           /\ (call.prompted = 1 /\ ret.result = "Ok") =>
                /\ ret.sig.path = call.prompt
                /\ ret.sig.member = CompletedMember
                /\ GetItem(ret.sig.items, 1) = MVariant(MObjectPath(ret.value))

\* C16: the secret record format_secret built has parameters of exactly 16
\* bytes if and only if the session is encrypted; in a plain session the
\* parameters are empty and the value is the input secret, byte for byte.
C16_ParametersIffEncrypted ==
    (pc = "done" /\ call.op \in {"create_item", "set_secret"})
        => LET s == SecretStruct(wire)
           IN  /\ Len(s.parameters) = 16 <=> get_aes_key(session) # NoKey
               /\ get_aes_key(session) = NoKey =>
                    (Len(s.parameters) = 0 /\ s.value = written.bytes)

\* A non-empty secret was stored in an encrypted session.
C16_EncryptedRecordBuilt ==
    /\ pc = "done"
    /\ call.op = "create_item"
    /\ ret.result = "Ok"
    /\ get_aes_key(session) # NoKey
    /\ Len(written.bytes) > 0
    /\ Len(SecretStruct(wire).parameters) = 16

\* C17: a session opened with EncryptionType::Plain has no AES key and one
\* opened with EncryptionType::Dh has a key of 16 bytes, whatever the daemon
\* replied.
C17_KeyByMode ==
    (pc = "done" /\ call.op = "new_blocking" /\ ret.result = "Ok")
        => /\ call.act = "Plain" => get_aes_key(session) = NoKey
           /\ call.act = "Dh" => Len(get_aes_key(session)) = 16

\* A Dh session was opened.
C17_DhSessionOpened ==
    /\ pc = "done"
    /\ call.op = "new_blocking"
    /\ call.act = "Dh"
    /\ ret.result = "Ok"
    /\ Len(get_aes_key(session)) = 16

\* C18: for the private keys a of the client and b of the daemon,
\* powm(powm(g, a, p), b, p) = powm(powm(g, b, p), a, p), and the key the
\* client derived is the key the daemon derives from the client's public key.
C18_SharedKeyAgrees ==
    (pc = "done" /\ call.op = "new_blocking" /\ call.act = "Dh" /\ ret.result = "Ok")
        => LET a == keypairs.client.private
               b == keypairs.server.private
               client_public == from_bytes_be(ToBytes(GetItem(call.sent, 0)))
           IN  /\ powm(powm(DH_GENERATOR, a, DH_PRIME), b, DH_PRIME)
                    = powm(powm(DH_GENERATOR, b, DH_PRIME), a, DH_PRIME)
               /\ get_aes_key(session) = derive_shared(keypairs.server, client_public)

\* A Dh session was opened by two different private keys, with public keys of
\* two bytes.
C18_DistinctExponents ==
    /\ pc = "done"
    /\ call.op = "new_blocking"
    /\ call.act = "Dh"
    /\ ret.result = "Ok"
    /\ keypairs.client.private > 1
    /\ keypairs.server.private > keypairs.client.private
    /\ keypairs.client.public > 255
    /\ keypairs.server.public > 255

\* C19: the IV of a record format_secret builds in an encrypted session is
\* none of the IVs of the records built before in that session.
C19_IvNeverReused ==
    (/\ pc = "done"
     /\ call.op \in {"create_item", "set_secret"}
     /\ get_aes_key(session) # NoKey)
        => SecretStruct(wire).parameters \notin ivs

\* C19, amended: the parameters of a record built in an encrypted session are
\* the 16 bytes the random generator gave in that call, and the value is the
\* secret encrypted under them: what earlier records carried does not enter.
C19_IvIsTheDraw ==
    (/\ pc = "done"
     /\ call.op \in {"create_item", "set_secret"}
     /\ get_aes_key(session) # NoKey)
        => /\ Len(call.aes_iv) = 16
           /\ SecretStruct(wire).parameters = call.aes_iv
           /\ SecretStruct(wire).value
                = encrypt(written.bytes, get_aes_key(session), call.aes_iv)

\* A further record is built in an encrypted session that built records
\* before, under an IV none of them had.
C19_FurtherRecordFreshIv ==
    /\ pc = "done"
    /\ call.op = "set_secret"
    /\ ret.result = "Ok"
    /\ get_aes_key(session) # NoKey
    /\ ivs # {}
    /\ SecretStruct(wire).parameters \notin ivs

\* C20: get_collection_by_alias returns the NoResult error if and only if
\* the ReadAlias reply is the root path "/"; on any other path in the reply
\* it returns Ok with the Collection at exactly that path.
C20_NoResultIffRoot ==
    (pc = "done" /\ call.op = "get_collection_by_alias")
        => /\ ret.result = "NoResult" <=> call.res = <<MObjectPath(RootPath)>>
           /\ (/\ HasItem(call.res, 0)
               /\ GetItem(call.res, 0).t = "ObjectPath"
               /\ GetItem(call.res, 0).v # RootPath)
                  => (ret.result = "Ok" /\ ret.value = GetItem(call.res, 0).v)

\* An alias that names no collection was asked for.
C20_NoSuchAlias ==
    /\ pc = "done"
    /\ call.op = "get_collection_by_alias"
    /\ call.res = <<MObjectPath(RootPath)>>
    /\ ret.result = "NoResult"

\* C21: get_any_collection asks for the alias default first, then for the
\* alias session, then for the list of collections: it returns the default
\* collection whenever that alias resolves, the session collection only when
\* default did not, the first listed collection only when neither alias
\* resolved, and NoResult when the list is empty too.
C21_DefaultSessionFirst ==
    (pc = "done" /\ call.op = "get_any_collection" /\ ret.result # "panic")
        => LET resolves(res) == /\ Len(res) = 1
                                /\ res[1].t = "ObjectPath"
                                /\ res[1].v # RootPath
               n == Len(call.res)
           IN  /\ call.sent = SubSeq(<<MStr("default"), MStr("session"),
                                       MStr("Collections")>>, 1, n)
               /\ resolves(call.res[1]) =>
                    (n = 1 /\ ret.result = "Ok" /\ ret.value = call.res[1][1].v)
               /\ n >= 2 => ~resolves(call.res[1])
               /\ (n >= 2 /\ resolves(call.res[2])) =>
                    (n = 2 /\ ret.result = "Ok" /\ ret.value = call.res[2][1].v)
               /\ n = 3 => ~resolves(call.res[2])
               /\ (n = 3 /\ call.res[3] # <<MNone>> /\ Len(call.res[3]) > 0) =>
                    (ret.result = "Ok" /\ ret.value = call.res[3][1].v)
               /\ (n = 3 /\ call.res[3] = <<>>) => ret.result = "NoResult"

\* Neither alias resolved and the first of two listed collections was taken.
C21_FirstListedTaken ==
    /\ pc = "done"
    /\ call.op = "get_any_collection"
    /\ Len(call.res) = 3
    /\ call.res[1] = <<MObjectPath(RootPath)>>
    /\ call.res[2] = <<MObjectPath(RootPath)>>
    /\ Len(call.res[3]) = 2
    /\ ret.result = "Ok"
    /\ ret.value = call.res[3][1].v

\* C22: delete on an object that is locked returns the Locked error, sends no
\* Delete request and runs no prompt; the object still exists and is still
\* locked when the call has returned.
C22_LockedDeleteRefused ==
    \A o \in Objects :
        (/\ pc = "done"
         /\ call.op = "delete"
         /\ call.objs = {o}
         /\ connected
         /\ o \in call.existed
         /\ o \in call.before)
            => /\ ret.result = "Locked"
               /\ call.sent = <<>>
               /\ call.prompted = 0
               /\ call.prompt = NoPath
               /\ o \in exists
               /\ locked[o]

\* delete was called on a locked object that exists.
C22_DeleteOnLocked ==
    /\ pc = "done"
    /\ call.op = "delete"
    /\ connected
    /\ call.objs \subseteq call.existed
    /\ call.objs \subseteq call.before
    /\ call.objs # {}
    /\ ret.result = "Locked"

\* C23: after delete has returned Ok the object no longer exists at the
\* daemon, and a later operation on the same value (here a further delete,
\* which reads the Locked property first) returns an error.
C23_DeletedIsGone ==
    /\ (pc = "done" /\ call.op = "delete" /\ ret.result = "Ok")
            => call.objs \cap exists = {}
    /\ (pc = "done" /\ call.op = "delete" /\ call.objs \cap call.existed = {})
            => ret.result # "Ok"

\* C24: a secret stored through one encrypted session is returned by
\* get_secret through another encrypted session, opened later and with
\* another key, as the plaintext that was stored.
C24_ReadAcrossSessions ==
    (/\ pc = "done"
     /\ call.op = "get_secret"
     /\ written.some
     /\ written.key # NoKey
     /\ get_aes_key(session) # NoKey
     /\ get_aes_key(session) # written.key)
        => (ret.result = "Ok" /\ ret.value = written.bytes)

\* A secret longer than a block was read back under another key than the one
\* it was stored under.
C24_ReadUnderOtherKey ==
    /\ pc = "done"
    /\ call.op = "get_secret"
    /\ written.some
    /\ Len(written.bytes) > BlockSize
    /\ written.key # NoKey
    /\ get_aes_key(session) # NoKey
    /\ get_aes_key(session) # written.key
    /\ ret.result = "Ok"

\* C25: get_secret returns the bytes of the last successful write: on an item
\* created with one secret and set to another since, it returns the secret
\* it was set to and not the one it was created with.
C25_LastWriteWins ==
    (/\ pc = "done"
     /\ call.op = "get_secret"
     /\ written.some
     /\ written.bytes # Ramp(4))
        => /\ ret.result = "Ok"
           /\ ret.value = written.bytes
           /\ ret.value # Ramp(4)

\* The item was set to another secret of the length of the one it was
\* created with, and read.
C25_ReadAfterOverwrite ==
    /\ pc = "done"
    /\ call.op = "get_secret"
    /\ written.some
    /\ Len(written.bytes) = 4
    /\ written.bytes # Ramp(4)
    /\ ret.result = "Ok"

\* C26: once the item was created with the attributes A, or set_attributes
\* with a non-empty A succeeded on it, get_attributes returns a collection
\* that contains every pair of A.
C26_AttributesContained ==
    (pc = "done" /\ call.op = "get_attributes" /\ ret.result = "Ok")
        => \A i \in 1..Len(given) : given[i] \in ret.value

\* C27: the opening of a session sends one OpenSession request; when the
\* request fails, or the output of the reply to a Dh request is no byte
\* array, the call returns an error, there is no Session, and no further
\* request was sent.
C27_OneOpenSession ==
    (pc = "done" /\ call.op = "new_blocking")
        => /\ Len(call.sent) = 1
           /\ (call.act = "Dh" /\ HasItem(call.res, 0) /\ GetItem(call.res, 0).t # "Array")
                => ret.result # "Ok"
           /\ call.res = <<>> => ret.result # "Ok"
           /\ ret.result # "Ok" => session = NoSession

\* The reply to a Dh request carried an output that is no byte array.
C27_OutputNoByteArray ==
    /\ pc = "done"
    /\ call.op = "new_blocking"
    /\ call.act = "Dh"
    /\ HasItem(call.res, 0)
    /\ GetItem(call.res, 0).t # "Array"
    /\ ret.result = "Zvariant"
    /\ session = NoSession

\* C28: a run of exec_prompt consumes one completion notification: it
\* resolves on the Completed signal of its own prompt, emitted in answer to
\* this run, and leaves no Completed signal in the connection that a later
\* run would resolve on.
C28_OneCompletionPerRun ==
    (pc = "done" /\ call.prompted = 1 /\ ret.sig # NoSignal)
        => /\ ret.sig.member = CompletedMember
           /\ ret.sig.path = call.prompt
           /\ call.answer # "none"
           /\ \A i \in 1..Len(inbox) : inbox[i].member # CompletedMember

C31_OwnPromptOutcome ==
    (pc = "done" /\ call.prompted = 1 /\ ret.sig # NoSignal)
        => /\ ret.sig.path # PromptPath(MaxPrompts + 1)
           /\ ret.sig.path = call.prompt
           /\ (ret.result = "Prompt") = (call.answer = "dismissed")

\* C32: exec_prompt ends its wait on a signal it read or on the loss of the
\* connection alone, never on the passing of time; and once the daemon has
\* emitted the Completed signal of the prompt a call waits on, the call
\* returns in the end.
C32_WaitEndsOnCompletion ==
    /\ [][(pc = "await" /\ pc' = "done") => (inbox # <<>> \/ ~connected')]_vars
    /\ (pc = "await" /\ call.answer # "none") ~> (pc = "done")

\* base to the power exp modulo modulus by exp multiplications, and the
\* number of bits of n: what C33 measures powm against.
RECURSIVE PowerMod(_, _, _)
PowerMod(base, exp, modulus) ==
    IF exp = 0 THEN 1 % modulus ELSE (base * PowerMod(base, exp - 1, modulus)) % modulus

BitsOf(n) == CHOOSE k \in 0..31 : n < 2^k /\ (k = 0 \/ n >= 2^(k - 1))

\* C33: powm(base, exp, modulus) returns base^exp mod modulus for every
\* base, every exp >= 0 and every modulus > 1, 1 for exp = 0, and its loop
\* takes as many turns as exp has bits.
C33_PowmIsPowerMod ==
    (pc = "done" /\ call.op = "powm")
        => LET base == call.sent[1]
               exp == call.sent[2]
               modulus == call.sent[3]
           IN  /\ ret.value[1] = PowerMod(base, exp, modulus)
               /\ (exp = 0 => ret.value[1] = 1)
               /\ ret.value[2] = BitsOf(exp)

\* powm has run on a base above the modulus and an exponent of several
\* bits, some of them zero.
C33_BaseAboveModulus ==
    /\ pc = "done" /\ call.op = "powm"
    /\ call.sent[1] > call.sent[3]
    /\ call.sent[2] = 10
    /\ ret.value[1] > 1

\* C34: for every public key a daemon can send (0, 1, keys below, equal to
\* and above the prime) derive_shared ends without a panic and gives hkdf an
\* input of exactly 128 bytes: 128 - len zero bytes, len never above 128,
\* and behind them the big-endian bytes of the common secret, the daemon's
\* public key to the power of the private key modulo DH_PRIME.
C34_IkmIs128Bytes ==
    (pc = "done" /\ call.op = "derive_shared")
        => LET bytes == to_bytes_be(PowerMod(call.sent[2], call.sent[1], DH_PRIME))
               pad == 128 - Len(bytes)
           IN  /\ ret.result = "Ok"
               /\ pad >= 0
               /\ Len(call.payload) = 128
               /\ \A i \in 1..pad : call.payload[i] = 0
               /\ SubSeq(call.payload, pad + 1, 128) = bytes

\* derive_shared has run on a public key above the prime, and the common
\* secret has more than one byte.
C34_KeyAbovePrime ==
    /\ pc = "done" /\ call.op = "derive_shared"
    /\ call.sent[2] > DH_PRIME
    /\ ret.result = "Ok"
    /\ call.payload[127] # 0

\* C35: in an encrypted session the value of the record built for a secret
\* of n bytes is 16 * (n div 16 + 1) bytes long: never empty and a whole
\* number of blocks, one block for the empty secret.
C35_CiphertextLength ==
    (pc = "done" /\ call.op \in {"create_item", "set_secret"}
                 /\ get_aes_key(session) # NoKey)
        => LET value == SecretStruct(wire).value
           IN  /\ ret.result = "Ok"
               /\ Len(value) = BlockSize * ((Len(written.bytes) \div BlockSize) + 1)
               /\ Len(value) > 0
               /\ Len(value) % BlockSize = 0

\* The empty secret was stored in an encrypted session, as one block.
C35_EmptySecretOneBlock ==
    /\ pc = "done" /\ call.op = "create_item"
    /\ get_aes_key(session) # NoKey
    /\ written.some /\ written.bytes = <<>>
    /\ Len(SecretStruct(wire).value) = BlockSize

\* A secret of exactly one block was stored, as two.
C35_FullBlockSecret ==
    /\ pc = "done" /\ call.op = "create_item"
    /\ get_aes_key(session) # NoKey
    /\ Len(written.bytes) = BlockSize
    /\ Len(SecretStruct(wire).value) = 2 * BlockSize

\* C36: once the session is established no call of create_item, set_secret
\* or get_secret changes it: in every step the session's object path and
\* its key stay what they were.
C36_SessionKept ==
    [][/\ session'.object_path = session.object_path
       /\ get_aes_key(session') = get_aes_key(session)]_vars

\* In an encrypted session a secret was stored, overwritten and read back.
C36_ReadAfterCalls ==
    /\ pc = "done" /\ call.op = "get_secret"
    /\ ret.result = "Ok"
    /\ get_aes_key(session) # NoKey
    /\ Len(written.bytes) > 4

\* C37: in every state after a Dh session was established the Session holds
\* its object path and a key of 16 bytes and nothing else: the key is the
\* output of hkdf, not the bytes of the private key, of the public key or of
\* the common secret, padded or not.
C37_SessionHoldsKeyOnly ==
    (session # NoSession /\ get_aes_key(session) # NoKey)
        => LET keypair == keypairs.client
               secret == powm(keypairs.server.public, keypair.private, DH_PRIME)
           IN  /\ DOMAIN session = {"object_path", "aes_key"}
               /\ session.object_path = SessionPath
               /\ Len(session.aes_key) = 16
               /\ session.aes_key \notin
                      { to_bytes_be(keypair.private), to_bytes_be(keypair.public),
                        to_bytes_be(secret),
                        common_secret_padded(keypair, keypairs.server.public) }

\* A Dh session was established with private keys above 1 and the caller
\* has gone on.
C37_AfterEstablishment ==
    /\ pc = "idle"
    /\ session # NoSession /\ get_aes_key(session) # NoKey
    /\ keypairs.client.private > 1
    /\ keypairs.server.private > 1

\* C38: get_secret in an encrypted session on a record whose parameters are
\* not exactly 16 bytes long (none at all, for one) returns an error of kind
\* Crypto to its caller and does not abort.
C38_BadIvIsCryptoError ==
    (/\ pc = "done"
     /\ call.op = "get_secret"
     /\ get_aes_key(session) # NoKey
     /\ Len(SecretStruct(wire).parameters) # BlockSize)
        => ret.result = "Crypto"

\* C39: set_attributes of the empty list returns Ok, sends no request to the
\* daemon and leaves the item's attributes as they were.
C39_EmptyListSendsNothing ==
    [][(pc = "idle" /\ call'.op = "set_attributes")
          => /\ ret'.result = "Ok"
             /\ call'.sent = NoCall.sent
             /\ attributes' = attributes]_vars

\* set_attributes of the empty list has returned on an item that has the two
\* attributes it was created with.
C39_AttributesStillThere ==
    /\ pc = "done" /\ call.op = "set_attributes"
    /\ ret.result = "Ok"
    /\ Len(given) = 2
    /\ \A i \in 1..2 : given[i] \in attributes

====
